---- MODULE Spec2Model ----
(***************************************************************************)
(* Zibal payment callback proxy (src/main.py, src/config.py).              *)
(*                                                                         *)
(* The model follows zibal_callback from one await to the next: a request  *)
(* is received, trackId is parsed and the verify call is posted, the       *)
(* verify reply is parsed and the signed webhook is posted, the webhook    *)
(* reply is parsed and the redirect is chosen.  The try/except around the  *)
(* body maps every exception to a failure redirect.  Python values that    *)
(* the handler formats, compares or tests for truth are modelled with      *)
(* their Python semantics (str(), ==, bool(), dict.get, int()).            *)
(***************************************************************************)
EXTENDS Integers, Sequences, FiniteSets, TLC

VARIABLES
    pc,                 \* per request: position of the handler coroutine
    params,             \* per request: query parameters of the callback
    verify_data,        \* per request: local verify_data
    verify_response,    \* per request: outcome of the verify post
    verify_result,      \* per request: local verify_result
    webhook_data,       \* per request: local webhook_data
    signature,          \* per request: local signature
    webhook_response,   \* per request: outcome of the webhook post
    webhook_result,     \* per request: local webhook_result
    calls,              \* per request: URLs posted so far, in order
    response,           \* per request: the HTTP response returned
    clock               \* datetime.utcnow(), shared by all requests

vars == <<pc, params, verify_data, verify_response, verify_result, webhook_data,
          signature, webhook_response, webhook_result, calls, response, clock>>

\* all of a request's handler state except the shared clock
locals == <<pc, params, verify_data, verify_response, verify_result, webhook_data,
            signature, webhook_response, webhook_result, calls, response>>

-----------------------------------------------------------------------------
(* Bounds *)

NumReqs == 2
MaxClock == 1

Reqs == 1..NumReqs

-----------------------------------------------------------------------------
(* Settings (src/config.py) *)

ZIBAL_MERCHANT_ID == "zibal"
ZIBAL_VERIFY_URL == "https://gateway.zibal.ir/v1/verify"
TICKETING_API_URL == "https://api.example"
TICKETING_FRONTEND_URL == "https://front.example"
WEBHOOK_SECRET == "s3cret"

HTTP_303_SEE_OTHER == 303

WebhookURL == TICKETING_API_URL \o "/api/v1/payments/zibal-webhook"

-----------------------------------------------------------------------------
(* Python values: a tag, a number and a string *)

PyNone == [t |-> "NoneType", n |-> 0, s |-> ""]
PyInt(i) == [t |-> "int", n |-> i, s |-> ""]
PyFloat(i) == [t |-> "float", n |-> i, s |-> ""]      \* the float i.0
PyBool(b) == [t |-> "bool", n |-> IF b THEN 1 ELSE 0, s |-> ""]
PyString(x) == [t |-> "str", n |-> 0, s |-> x]
PyList(len) == [t |-> "list", n |-> len, s |-> ""]    \* a list of len zeros

DigitChars == "0123456789"

DigitStr(d) == SubSeq(DigitChars, d + 1, d + 1)

RECURSIVE NatStr(_)
NatStr(i) == IF i < 10 THEN DigitStr(i) ELSE NatStr(i \div 10) \o DigitStr(i % 10)

\* str(i) of a Python int
IntStr(i) == IF i < 0 THEN "-" \o NatStr(-i) ELSE NatStr(i)

RECURSIVE ZerosStr(_)
ZerosStr(len) == IF len = 0 THEN "" ELSE IF len = 1 THEN "0" ELSE "0, " \o ZerosStr(len - 1)

\* format(v, "") as an f-string replacement field applies it
PyStr(v) ==
    CASE v.t = "NoneType" -> "None"
      [] v.t = "int" -> IntStr(v.n)
      [] v.t = "float" -> IntStr(v.n) \o ".0"
      [] v.t = "bool" -> IF v.n = 1 THEN "True" ELSE "False"
      [] v.t = "str" -> v.s
      [] v.t = "list" -> "[" \o ZerosStr(v.n) \o "]"

\* bool(v)
PyTruthy(v) ==
    CASE v.t = "NoneType" -> FALSE
      [] v.t \in {"int", "float", "bool", "list"} -> v.n # 0
      [] v.t = "str" -> v.s # ""

\* v == w: numbers (int, float, bool) compare by value, the rest by type and value
PyEq(v, w) ==
    LET num == {"int", "float", "bool"}
    IN IF v.t \in num /\ w.t \in num THEN v.n = w.n ELSE v = w

-----------------------------------------------------------------------------
(* int(trackId) *)

IsSpace(c) == c \in {" ", "\t", "\n", "\r"}
IsDigit(c) == \E d \in 0..9 : DigitStr(d) = c
DigitVal(c) == CHOOSE d \in 0..9 : DigitStr(d) = c
CharAt(x, i) == SubSeq(x, i, i)

RECURSIVE Strip(_)
Strip(x) ==
    IF Len(x) = 0 THEN x
    ELSE IF IsSpace(CharAt(x, 1)) THEN Strip(SubSeq(x, 2, Len(x)))
    ELSE IF IsSpace(CharAt(x, Len(x))) THEN Strip(SubSeq(x, 1, Len(x) - 1))
    ELSE x

\* decimal digits, single underscores allowed between two digits
DigitsOk(x) ==
    /\ Len(x) > 0
    /\ \A i \in 1..Len(x) :
          \/ IsDigit(CharAt(x, i))
          \/ /\ CharAt(x, i) = "_"
             /\ 1 < i /\ i < Len(x)
             /\ IsDigit(CharAt(x, i - 1))
             /\ IsDigit(CharAt(x, i + 1))

RECURSIVE DigitsVal(_, _)
DigitsVal(x, acc) ==
    IF Len(x) = 0 THEN acc
    ELSE IF CharAt(x, 1) = "_" THEN DigitsVal(SubSeq(x, 2, Len(x)), acc)
    ELSE DigitsVal(SubSeq(x, 2, Len(x)), 10 * acc + DigitVal(CharAt(x, 1)))

\* int(x) for a str x: [ok, val]; ok = FALSE stands for ValueError
IntParse(x) ==
    LET t == Strip(x)
        signed == Len(t) > 0 /\ CharAt(t, 1) \in {"+", "-"}
        body == IF signed THEN SubSeq(t, 2, Len(t)) ELSE t
    IN IF DigitsOk(body)
       THEN [ok |-> TRUE,
             val |-> IF signed /\ CharAt(t, 1) = "-" THEN 0 - DigitsVal(body, 0)
                     ELSE DigitsVal(body, 0)]
       ELSE [ok |-> FALSE, val |-> 0]

StartsWith(x, p) == Len(x) >= Len(p) /\ SubSeq(x, 1, Len(p)) = p

-----------------------------------------------------------------------------
(* JSON bodies and the outcome of an outbound post *)

EmptyDict == [k \in {} |-> PyNone]

\* a parsed JSON document: a dict (d) or any other value (v)
JsonDict(d) == [isdict |-> TRUE, d |-> d, v |-> PyNone]
JsonOther(v) == [isdict |-> FALSE, d |-> EmptyDict, v |-> v]
NoBody == JsonOther(PyNone)

\* d.get(k, default)
DictGet(d, k, default) == IF k \in DOMAIN d THEN d[k] ELSE default

\* what happened to one client.post: an exception raised by httpx, a body
\* that is not JSON, or a body that parses
Raised(kind) == [kind |-> kind, body |-> NoBody]
InvalidJson == [kind |-> "invalid_json", body |-> NoBody]
Json(body) == [kind |-> "json", body |-> body]
NotCalled == [kind |-> "not_called", body |-> NoBody]

\* exception classes: httpx.RequestError and its subclasses, and the rest
RequestErrors == {"ConnectError", "ReadTimeout"}
OtherExceptions == {"ValueError", "JSONDecodeError", "AttributeError"}

\* as if the except clause named httpx.NetworkError: timeouts fall through
IsRequestError_NoTimeout(exc) == exc \in RequestErrors \ {"ReadTimeout"}
IsRequestError(exc) == exc \in RequestErrors
\* as if the last clause were `except ValueError`
IsException_ValueErrorOnly(exc) == exc \in {"ValueError", "JSONDecodeError"}
IsException(exc) == exc \in RequestErrors \cup OtherExceptions

-----------------------------------------------------------------------------
(* Responses *)

Redirect(url) == [status_code |-> HTTP_303_SEE_OTHER, url |-> url]
NoResponse == [status_code |-> 0, url |-> ""]
\* what the framework answers when an exception leaves the handler
ServerError == [status_code |-> 500, url |-> ""]

ConnectionErrorURL == TICKETING_FRONTEND_URL \o "/payment/failed?error=Connection+error"
SystemErrorURL == TICKETING_FRONTEND_URL \o "/payment/failed?error=System+error"

\* as if `except Exception` came first
ExceptHandler_GenericFirst(exc) ==
    IF IsException(exc) THEN Redirect(SystemErrorURL) ELSE ServerError

\* the except clauses of zibal_callback
ExceptHandler(exc) ==
    IF IsRequestError(exc) THEN Redirect(ConnectionErrorURL)
    ELSE IF IsException(exc) THEN Redirect(SystemErrorURL)
    ELSE ServerError

-----------------------------------------------------------------------------
(* Pieces of zibal_callback *)

\* hmac.new(key, msg, sha256).hexdigest(), idealised: distinct (key, msg)
\* give distinct digests
HmacSha256Hex(key, msg) == "hmac-sha256(" \o key \o "|" \o msg \o ")"

\* as if the timestamp were part of the signed message
create_signature_WithTimestamp(data) ==
    LET message == data.trackId \o ":" \o IntStr(data.success) \o ":" \o IntStr(data.status)
                     \o ":" \o IntStr(data.timestamp)
    IN HmacSha256Hex(WEBHOOK_SECRET, message)

create_signature(data) ==
    LET message == data.trackId \o ":" \o IntStr(data.success) \o ":" \o IntStr(data.status)
    IN HmacSha256Hex(WEBHOOK_SECRET, message)

BuildVerifyData(trackIdInt) == [merchant |-> ZIBAL_MERCHANT_ID, trackId |-> trackIdInt]

\* as if the query parameters were kept in a module-level global that the
\* latest request overwrites
BuildWebhookData_Global(p, vr, now) ==
    LET seen == {q \in Reqs : pc[q] # "idle"}
        g == IF seen = {} THEN p ELSE params[CHOOSE q \in seen : \A q2 \in seen : q2 <= q]
    IN [trackId |-> g.trackId, success |-> g.success, status |-> g.status,
        orderId |-> g.orderId, verifyResult |-> vr, timestamp |-> now]

BuildWebhookData(p, vr, now) ==
    [trackId |-> p.trackId, success |-> p.success, status |-> p.status,
     orderId |-> p.orderId, verifyResult |-> vr, timestamp |-> now]

\* as if a body that is not JSON were read as {}
PostAndParse_EmptyOnInvalid(o) ==
    IF o.kind \in {"json", "invalid_json"}
    THEN [exc |-> "none", json |-> IF o.kind = "json" THEN o.body ELSE JsonDict(EmptyDict)]
    ELSE [exc |-> o.kind, json |-> NoBody]

\* await client.post(...) then response.json(): the exception raised, if
\* any, and the parsed body
PostAndParse(o) ==
    IF o.kind = "json" THEN [exc |-> "none", json |-> o.body]
    ELSE IF o.kind = "invalid_json" THEN [exc |-> "JSONDecodeError", json |-> NoBody]
    ELSE [exc |-> o.kind, json |-> NoBody]

\* as if the handler raised unless the gateway verified the payment
VerifyStep_RequireVerified(o) ==
    LET step == PostAndParse(o)
    IN IF step.exc = "none"
          /\ ~(step.json.isdict /\ PyEq(DictGet(step.json.d, "result", PyNone), PyInt(100)))
       THEN [exc |-> "ValueError", json |-> NoBody]
       ELSE step

VerifyStep(o) == PostAndParse(o)
WebhookStep(o) == PostAndParse(o)

PostVerify(cs) == Append(cs, ZIBAL_VERIFY_URL)
\* as if a post were tried twice
PostWebhook_Retry(cs) == cs \o <<WebhookURL, WebhookURL>>
PostWebhook(cs) == Append(cs, WebhookURL)

SuccessURL(wr) ==
    TICKETING_FRONTEND_URL \o "/payment/success"
        \o "?ref_id=" \o PyStr(DictGet(wr.d, "ref_number", PyNone))
        \o "&reservation_id=" \o PyStr(DictGet(wr.d, "reservation_id", PyNone))

\* as if written verify_result.get("message") or "Unknown error"
ErrorMsg_OrDefault(vr) ==
    LET m == DictGet(vr.d, "message", PyNone)
    IN IF PyTruthy(m) THEN m ELSE PyString("Unknown error")

ErrorMsg(vr) == DictGet(vr.d, "message", PyString("Unknown error"))

FailedURL(vr, trackId) ==
    TICKETING_FRONTEND_URL \o "/payment/failed"
        \o "?error=" \o PyStr(ErrorMsg(vr))
        \o "&trackId=" \o trackId

\* as if written `if verify_result.get("result") and ...`
VerifiedOk_AnyResult(vr) == PyTruthy(DictGet(vr.d, "result", PyNone))

\* verify_result.get("result") == 100
VerifiedOk(vr) == PyEq(DictGet(vr.d, "result", PyNone), PyInt(100))

\* Step 3: the redirect, or the exception .get raises on a value that is
\* not a dict; `and` evaluates its right operand only when the left is true
Decide(vr, wr, trackId) ==
    IF ~vr.isdict THEN ExceptHandler("AttributeError")
    ELSE IF VerifiedOk(vr)
         THEN IF ~wr.isdict THEN ExceptHandler("AttributeError")
              ELSE IF PyTruthy(DictGet(wr.d, "success", PyNone))
                   THEN Redirect(SuccessURL(wr))
                   ELSE Redirect(FailedURL(vr, trackId))
         ELSE Redirect(FailedURL(vr, trackId))

-----------------------------------------------------------------------------
(* Inputs *)

NoParams == [trackId |-> "", success |-> 0, status |-> 0, orderId |-> PyNone]
NoVerifyData == [merchant |-> "", trackId |-> 0]
NoWebhookData ==
    [trackId |-> "", success |-> 0, status |-> 0, orderId |-> PyNone,
     verifyResult |-> NoBody, timestamp |-> 0]

TrackIds == {"998877", "12", " 7 ", "-5", "1_0", "abc", "", "12a"}
SuccessFlags == {0, 1}
StatusCodes == {2, 3, -1}
OrderIds == {PyNone, PyString("A")}

CallbackParams ==
    [trackId : TrackIds, success : SuccessFlags, status : StatusCodes, orderId : OrderIds]

VerifyBodies ==
    { JsonDict([result |-> PyInt(100), message |-> PyString("success")]),
      JsonDict([result |-> PyInt(100)]),
      JsonDict([result |-> PyFloat(100), message |-> PyString("success")]),
      JsonDict([result |-> PyString("100"), message |-> PyString("text")]),
      JsonDict([result |-> PyInt(102), message |-> PyString("already verified")]),
      JsonDict([result |-> PyInt(102), message |-> PyNone]),
      JsonDict([result |-> PyInt(102), message |-> PyString("")]),
      JsonDict([result |-> PyInt(202)]),
      JsonDict(EmptyDict),
      JsonOther(PyList(0)),
      JsonOther(PyNone),
      JsonOther(PyInt(100)) }

WebhookBodies ==
    { JsonDict([success |-> PyBool(TRUE), ref_number |-> PyString("R1"),
                reservation_id |-> PyString("RES1")]),
      JsonDict([success |-> PyBool(TRUE), ref_number |-> PyInt(7)]),
      JsonDict([success |-> PyInt(1)]),
      JsonDict([success |-> PyBool(FALSE), ref_number |-> PyString("R1"),
                reservation_id |-> PyString("RES1")]),
      JsonDict([success |-> PyNone]),
      JsonDict([success |-> PyString("")]),
      JsonDict(EmptyDict),
      JsonOther(PyList(1)),
      JsonOther(PyBool(TRUE)) }

Outcomes(bodies) ==
    {Raised(e) : e \in RequestErrors} \cup {InvalidJson} \cup {Json(b) : b \in bodies}

VerifyOutcomes == Outcomes(VerifyBodies)
WebhookOutcomes == Outcomes(WebhookBodies)

\* the reduced inputs of the concurrent specification
ConcParams ==
    { [trackId |-> "12", success |-> 1, status |-> 2, orderId |-> PyString("A")],
      [trackId |-> "12", success |-> 1, status |-> 2, orderId |-> PyNone],
      [trackId |-> "1_0", success |-> 0, status |-> 3, orderId |-> PyString("A")],
      [trackId |-> "abc", success |-> 1, status |-> 2, orderId |-> PyNone] }

ConcVerifyOutcomes ==
    { Raised("ConnectError"),
      Json(JsonDict([result |-> PyInt(100), message |-> PyString("success")])),
      Json(JsonDict([result |-> PyInt(102), message |-> PyString("already verified")])) }

ConcWebhookOutcomes ==
    { Raised("ReadTimeout"),
      Json(JsonDict([success |-> PyBool(TRUE), ref_number |-> PyString("R1"),
                     reservation_id |-> PyString("RES1")])) }

-----------------------------------------------------------------------------
(* State machine *)

Init ==
    /\ pc = [r \in Reqs |-> "idle"]
    /\ params = [r \in Reqs |-> NoParams]
    /\ verify_data = [r \in Reqs |-> NoVerifyData]
    /\ verify_response = [r \in Reqs |-> NotCalled]
    /\ verify_result = [r \in Reqs |-> NoBody]
    /\ webhook_data = [r \in Reqs |-> NoWebhookData]
    /\ signature = [r \in Reqs |-> ""]
    /\ webhook_response = [r \in Reqs |-> NotCalled]
    /\ webhook_result = [r \in Reqs |-> NoBody]
    /\ calls = [r \in Reqs |-> <<>>]
    /\ response = [r \in Reqs |-> NoResponse]
    /\ clock = 0

\* the server dispatches GET /api/zibal/callback with parsed query parameters
Receive(r, p) ==
    /\ pc[r] = "idle"
    /\ pc' = [pc EXCEPT ![r] = "received"]
    /\ params' = [params EXCEPT ![r] = p]
    /\ UNCHANGED <<verify_data, verify_response, verify_result, webhook_data, signature,
                   webhook_response, webhook_result, calls, response, clock>>

\* the handler runs to its first await: int(trackId), then the verify post
StartVerify(r) ==
    LET parsed == IntParse(params[r].trackId)
    IN /\ pc[r] = "received"
       /\ IF parsed.ok
          THEN /\ verify_data' = [verify_data EXCEPT ![r] = BuildVerifyData(parsed.val)]
               /\ calls' = [calls EXCEPT ![r] = PostVerify(calls[r])]
               /\ pc' = [pc EXCEPT ![r] = "verifying"]
               /\ UNCHANGED response
          ELSE /\ response' = [response EXCEPT ![r] = ExceptHandler("ValueError")]
               /\ pc' = [pc EXCEPT ![r] = "done"]
               /\ UNCHANGED <<verify_data, calls>>
       /\ UNCHANGED <<params, verify_response, verify_result, webhook_data, signature,
                      webhook_response, webhook_result, clock>>

\* the verify post completes with outcome o: parse it, build and sign the
\* webhook payload and post it
VerifyResponds(r, o) ==
    LET step == VerifyStep(o)
        data == BuildWebhookData(params[r], step.json, clock)
    IN /\ pc[r] = "verifying"
       /\ verify_response' = [verify_response EXCEPT ![r] = o]
       /\ IF step.exc = "none"
          THEN /\ verify_result' = [verify_result EXCEPT ![r] = step.json]
               /\ webhook_data' = [webhook_data EXCEPT ![r] = data]
               /\ signature' = [signature EXCEPT ![r] = create_signature(data)]
               /\ calls' = [calls EXCEPT ![r] = PostWebhook(calls[r])]
               /\ pc' = [pc EXCEPT ![r] = "forwarding"]
               /\ UNCHANGED response
          ELSE /\ response' = [response EXCEPT ![r] = ExceptHandler(step.exc)]
               /\ pc' = [pc EXCEPT ![r] = "done"]
               /\ UNCHANGED <<verify_result, webhook_data, signature, calls>>
       /\ UNCHANGED <<params, verify_data, webhook_response, webhook_result, clock>>

\* the webhook post completes with outcome o: parse it and redirect
ForwardResponds(r, o) ==
    LET step == WebhookStep(o)
    IN /\ pc[r] = "forwarding"
       /\ webhook_response' = [webhook_response EXCEPT ![r] = o]
       /\ IF step.exc = "none"
          THEN /\ webhook_result' = [webhook_result EXCEPT ![r] = step.json]
               /\ response' = [response EXCEPT ![r] =
                                 Decide(verify_result[r], step.json, params[r].trackId)]
          ELSE /\ response' = [response EXCEPT ![r] = ExceptHandler(step.exc)]
               /\ UNCHANGED webhook_result
       /\ pc' = [pc EXCEPT ![r] = "done"]
       /\ UNCHANGED <<params, verify_data, verify_response, verify_result, webhook_data,
                      signature, calls, clock>>

\* time passes
Tick ==
    /\ clock < MaxClock
    /\ clock' = clock + 1
    /\ UNCHANGED locals

\* one callback, every input
Next ==
    \/ \E p \in CallbackParams : Receive(1, p)
    \/ StartVerify(1)
    \/ \E o \in VerifyOutcomes : VerifyResponds(1, o)
    \/ \E o \in WebhookOutcomes : ForwardResponds(1, o)
    \/ Tick

Spec == Init /\ [][Next]_vars

\* one callback whose posts always complete (a reply, or the 15 s timeout)
\* and whose coroutine is always resumed
Progress ==
    \/ StartVerify(1)
    \/ \E o \in VerifyOutcomes : VerifyResponds(1, o)
    \/ \E o \in WebhookOutcomes : ForwardResponds(1, o)

SpecLive == Init /\ [][Next]_vars /\ WF_vars(Progress)

\* concurrent callbacks interleaved at their awaits
NextConc ==
    \/ \E r \in Reqs, p \in ConcParams : Receive(r, p)
    \/ \E r \in Reqs : StartVerify(r)
    \/ \E r \in Reqs, o \in ConcVerifyOutcomes : VerifyResponds(r, o)
    \/ \E r \in Reqs, o \in ConcWebhookOutcomes : ForwardResponds(r, o)
    \/ Tick

SpecConc == Init /\ [][NextConc]_vars

-----------------------------------------------------------------------------
(* Properties *)

FailedPrefix == TICKETING_FRONTEND_URL \o "/payment/failed?"
SuccessPrefix == TICKETING_FRONTEND_URL \o "/payment/success?"

IsSuccessRedirect(resp) == resp.status_code = 303 /\ StartsWith(resp.url, SuccessPrefix)
IsFailureRedirect(resp) == resp.status_code = 303 /\ StartsWith(resp.url, FailedPrefix)

\* the post came back with a JSON object
GotMapping(o) == o.kind = "json" /\ o.body.isdict
\* the post came back with JSON that is not an object
GotNonMapping(o) == o.kind = "json" /\ ~o.body.isdict
NetworkFailed(o) == o.kind \in {"ConnectError", "ReadTimeout"}

\* the reply is a mapping whose `result` is the number 100
ResultIs100(o) ==
    /\ GotMapping(o)
    /\ "result" \in DOMAIN o.body.d
    /\ o.body.d.result.t \in {"int", "float"}
    /\ o.body.d.result.n = 100

\* the reply is a mapping whose `success` is truthy
SuccessTruthy(o) ==
    /\ GotMapping(o)
    /\ "success" \in DOMAIN o.body.d
    /\ LET x == o.body.d.success
       IN ~(\/ x.t = "NoneType"
            \/ x.t \in {"int", "float", "bool", "list"} /\ x.n = 0
            \/ x.t = "str" /\ x.s = "")

SuccessCondition(r) == ResultIs100(verify_response[r]) /\ SuccessTruthy(webhook_response[r])

\* the text an f-string gives for key k of mapping d, "None" when absent
Shown(d, k) == IF k \in DOMAIN d THEN PyStr(d[k]) ELSE "None"

\* C1: a finished callback is answered with the success redirect, built from
\* the forward reply's ref_number and reservation_id, exactly when the verify
\* reply is a mapping with result 100 and the forward reply is a mapping with
\* a truthy success; otherwise the answer is a failure redirect.
C1_SuccessIff ==
    \A r \in Reqs : pc[r] = "done" =>
        IF SuccessCondition(r)
        THEN response[r] =
               [status_code |-> 303,
                url |-> TICKETING_FRONTEND_URL \o "/payment/success?ref_id="
                          \o Shown(webhook_response[r].body.d, "ref_number")
                          \o "&reservation_id="
                          \o Shown(webhook_response[r].body.d, "reservation_id")]
        ELSE IsFailureRedirect(response[r]) /\ ~IsSuccessRedirect(response[r])

C1_Witness ==
    \E r \in Reqs :
        /\ pc[r] = "done"
        /\ SuccessCondition(r)
        /\ response[r].url = TICKETING_FRONTEND_URL
                                \o "/payment/success?ref_id=R1&reservation_id=RES1"

\* the business-failure case: both replies are mappings, no success
BusinessFailure(r) ==
    /\ pc[r] = "done"
    /\ GotMapping(verify_response[r])
    /\ GotMapping(webhook_response[r])
    /\ ~SuccessCondition(r)

FailedWith(r, text) ==
    response[r] = [status_code |-> 303,
                   url |-> TICKETING_FRONTEND_URL \o "/payment/failed?error=" \o text
                             \o "&trackId=" \o params[r].trackId]

\* C2 as stated: in the business-failure case the error parameter is the
\* verify message, or "Unknown error" when the message is absent, null or
\* empty, and trackId is echoed.
C2_AsStated ==
    \A r \in Reqs : BusinessFailure(r) =>
        LET d == verify_response[r].body.d
            usable == /\ "message" \in DOMAIN d
                      /\ d.message.t # "NoneType"
                      /\ ~(d.message.t = "str" /\ d.message.s = "")
        IN FailedWith(r, IF usable THEN PyStr(d.message) ELSE "Unknown error")

\* C2 amended: in the business-failure case the error parameter is the text
\* of the verify message whenever the key is present (a null message reads
\* "None", an empty one is empty), and "Unknown error" only when the key is
\* absent; trackId is echoed.
C2_ErrorFromMessage ==
    \A r \in Reqs : BusinessFailure(r) =>
        LET d == verify_response[r].body.d
        IN FailedWith(r, IF "message" \in DOMAIN d THEN PyStr(d.message)
                         ELSE "Unknown error")

C2_Witness ==
    \E r \in Reqs :
        /\ BusinessFailure(r)
        /\ "message" \in DOMAIN verify_response[r].body.d
        /\ verify_response[r].body.d.message = PyNone
        /\ response[r].url = TICKETING_FRONTEND_URL \o "/payment/failed?error=None&trackId="
                                \o params[r].trackId

\* C3: a network failure of the verify post or of the forward post ends in
\* the Connection+error redirect, whatever the verify reply was, and the
\* failed post is the last one made.
C3_ConnectionError ==
    \A r \in Reqs : pc[r] = "done" =>
        /\ NetworkFailed(verify_response[r]) =>
              /\ response[r] = [status_code |-> 303,
                                url |-> TICKETING_FRONTEND_URL
                                          \o "/payment/failed?error=Connection+error"]
              /\ calls[r] = <<ZIBAL_VERIFY_URL>>
        /\ NetworkFailed(webhook_response[r]) =>
              /\ response[r] = [status_code |-> 303,
                                url |-> TICKETING_FRONTEND_URL
                                          \o "/payment/failed?error=Connection+error"]
              /\ calls[r] = <<ZIBAL_VERIFY_URL, WebhookURL>>

C3_Witness ==
    \E r \in Reqs :
        /\ pc[r] = "done"
        /\ ResultIs100(verify_response[r])
        /\ NetworkFailed(webhook_response[r])
        /\ response[r].url = TICKETING_FRONTEND_URL \o "/payment/failed?error=Connection+error"

SystemErrorResponse ==
    [status_code |-> 303, url |-> TICKETING_FRONTEND_URL \o "/payment/failed?error=System+error"]

NoNetworkFailure(r) ==
    ~NetworkFailed(verify_response[r]) /\ ~NetworkFailed(webhook_response[r])

\* C4 as stated: with no network failure, an unparsable trackId, or a verify
\* or forward body that is not JSON or not a mapping, ends in the constant
\* System+error redirect.
C4_AsStated ==
    \A r \in Reqs :
        (/\ pc[r] = "done"
         /\ NoNetworkFailure(r)
         /\ \/ ~IntParse(params[r].trackId).ok
            \/ verify_response[r].kind = "invalid_json"
            \/ GotNonMapping(verify_response[r])
            \/ webhook_response[r].kind = "invalid_json"
            \/ GotNonMapping(webhook_response[r]))
        => response[r] = SystemErrorResponse

\* C4 amended: with no network failure, an unparsable trackId, a verify body
\* that is not JSON or not a mapping, a forward body that is not JSON, or a
\* forward body that is not a mapping when the verify result is 100, ends in
\* the constant System+error redirect; a forward body that is JSON but not a
\* mapping is not looked at when the verify result is not 100, and the
\* answer is then the failure redirect with the verify message and trackId.
C4_SystemError ==
    \A r \in Reqs : (pc[r] = "done" /\ NoNetworkFailure(r)) =>
        /\ (\/ ~IntParse(params[r].trackId).ok
            \/ verify_response[r].kind = "invalid_json"
            \/ GotNonMapping(verify_response[r])
            \/ webhook_response[r].kind = "invalid_json"
            \/ GotNonMapping(webhook_response[r]) /\ ResultIs100(verify_response[r]))
           => response[r] = SystemErrorResponse
        /\ (/\ GotNonMapping(webhook_response[r])
            /\ GotMapping(verify_response[r])
            /\ ~ResultIs100(verify_response[r]))
           => LET d == verify_response[r].body.d
              IN FailedWith(r, IF "message" \in DOMAIN d THEN PyStr(d.message)
                               ELSE "Unknown error")

C4_Witness ==
    \E r \in Reqs :
        /\ pc[r] = "done"
        /\ ResultIs100(verify_response[r])
        /\ GotNonMapping(webhook_response[r])
        /\ response[r] = SystemErrorResponse

C6_CallOrder ==
    \A r \in Reqs :
        /\ calls[r] \in {<<>>, <<ZIBAL_VERIFY_URL>>, <<ZIBAL_VERIFY_URL, WebhookURL>>}
        /\ pc[r] \in {"idle", "received"} => calls[r] = <<>>
        /\ pc[r] = "verifying" => calls[r] = <<ZIBAL_VERIFY_URL>>
        /\ pc[r] = "forwarding" => calls[r] = <<ZIBAL_VERIFY_URL, WebhookURL>>
        /\ Len(calls[r]) >= 1 =>
              /\ IntParse(params[r].trackId).ok
              /\ verify_data[r] = [merchant |-> ZIBAL_MERCHANT_ID,
                                   trackId |-> IntParse(params[r].trackId).val]
        /\ Len(calls[r]) = 2 => verify_response[r].kind = "json"
        /\ Len(calls[r]) < 2 => webhook_response[r].kind = "not_called"

\* C6, in every step: a callback moves only along received -> verifying ->
\* forwarding -> done or straight to done; the step that finishes it posts
\* nothing; once finished it posts nothing more and its response stays.
C6_Step ==
    \A r \in Reqs :
        /\ pc'[r] # pc[r] =>
              <<pc[r], pc'[r]>> \in {<<"idle", "received">>, <<"received", "verifying">>,
                                     <<"verifying", "forwarding">>, <<"forwarding", "done">>,
                                     <<"received", "done">>, <<"verifying", "done">>}
        /\ pc'[r] = "done" => calls'[r] = calls[r]
        /\ pc[r] = "done" => pc'[r] = "done" /\ response'[r] = response[r]
        /\ Len(calls'[r]) <= Len(calls[r]) + 1

\* C6: each callback follows the linear machine received -> verifying ->
\* forwarding -> redirect, with at most one verify post and one forward post
\* in that order, and a failure at any step ends it with no later post.
C6_LinearMachine == []C6_CallOrder /\ [][C6_Step]_vars

C6_Witness ==
    \E r \in Reqs :
        /\ pc[r] = "done"
        /\ calls[r] = <<ZIBAL_VERIFY_URL, WebhookURL>>
        /\ verify_data[r].trackId = 998877
        /\ IsFailureRedirect(response[r])

\* C7: every received callback eventually finishes with a 303 redirect, the
\* response of a finished callback never changes, and a timeout of either
\* post ends in the Connection+error redirect.
C7_Terminates ==
    /\ \A r \in Reqs : (pc[r] # "idle") ~> (pc[r] = "done" /\ response[r].status_code = 303)
    /\ [][\A r \in Reqs : pc[r] = "done" => (pc'[r] = "done" /\ response'[r] = response[r])]_vars
    /\ [](\A r \in Reqs :
             (\/ verify_response[r].kind = "ReadTimeout"
              \/ webhook_response[r].kind = "ReadTimeout")
             => /\ pc[r] = "done"
                /\ response[r] = [status_code |-> 303,
                                  url |-> TICKETING_FRONTEND_URL
                                            \o "/payment/failed?error=Connection+error"])

C7_Witness ==
    \E r \in Reqs :
        /\ pc[r] = "done"
        /\ webhook_response[r].kind = "ReadTimeout"
        /\ response[r].url = TICKETING_FRONTEND_URL \o "/payment/failed?error=Connection+error"

\* everything the handler holds for request r
LocalsOf(r) ==
    <<pc[r], params[r], verify_data[r], verify_response[r], verify_result[r],
      webhook_data[r], signature[r], webhook_response[r], webhook_result[r], calls[r],
      response[r]>>

\* what request r was given: its query parameters and the outcomes of its posts
InputsOf(r) == <<params[r], verify_response[r], webhook_response[r]>>

\* what request r produced, the payload without its timestamp
OutputsOf(r) ==
    <<webhook_data[r].trackId, webhook_data[r].success, webhook_data[r].status,
      webhook_data[r].orderId, webhook_data[r].verifyResult, signature[r], calls[r],
      response[r]>>

\* C8, in every state: the payload and signature of a forwarded callback come
\* from its own parameters and its own verify reply, and two callbacks at the
\* same point with the same inputs have the same payload, signature and
\* response.
C8_OwnInputs ==
    /\ \A r \in Reqs : Len(calls[r]) = 2 =>
          /\ webhook_data[r].trackId = params[r].trackId
          /\ webhook_data[r].success = params[r].success
          /\ webhook_data[r].status = params[r].status
          /\ webhook_data[r].orderId = params[r].orderId
          /\ webhook_data[r].verifyResult = verify_response[r].body
          /\ signature[r] = HmacSha256Hex(WEBHOOK_SECRET,
                               params[r].trackId \o ":" \o IntStr(params[r].success)
                                  \o ":" \o IntStr(params[r].status))
    /\ \A r1, r2 \in Reqs :
          (pc[r1] = pc[r2] /\ InputsOf(r1) = InputsOf(r2)) => OutputsOf(r1) = OutputsOf(r2)

\* C8, in every step: at most one callback's state changes, so a callback
\* that is suspended or fails leaves every other callback as it was.
C8_Frame ==
    \A r1, r2 \in Reqs :
        (r1 # r2 /\ LocalsOf(r1)' # LocalsOf(r1)) => LocalsOf(r2)' = LocalsOf(r2)

\* C8: concurrent callbacks are independent under every interleaving.
C8_Independent == []C8_OwnInputs /\ [][C8_Frame]_vars

C8_Witness ==
    \E r1, r2 \in Reqs :
        /\ pc[r1] = "done" /\ pc[r2] = "done"
        /\ params[r1].trackId # params[r2].trackId
        /\ NetworkFailed(webhook_response[r1])
        /\ response[r1].url = TICKETING_FRONTEND_URL \o "/payment/failed?error=Connection+error"
        /\ IsSuccessRedirect(response[r2])
        /\ webhook_data[r2].trackId = params[r2].trackId

Triple(data) == <<data.trackId, data.success, data.status>>

\* C9: the signature of every forward post is the keyed digest of
\* "trackId:success:status" of its own payload under the shared secret, and
\* two forward posts with the same triple carry the same signature whatever
\* their orderId, verifyResult and timestamp.
C9_SignatureFromTriple ==
    /\ \A r \in Reqs : Len(calls[r]) = 2 =>
          signature[r] = HmacSha256Hex(WEBHOOK_SECRET,
                            webhook_data[r].trackId \o ":" \o IntStr(webhook_data[r].success)
                               \o ":" \o IntStr(webhook_data[r].status))
    /\ \A r1, r2 \in Reqs :
          (/\ Len(calls[r1]) = 2
           /\ Len(calls[r2]) = 2
           /\ Triple(webhook_data[r1]) = Triple(webhook_data[r2]))
          => signature[r1] = signature[r2]

C9_Witness ==
    \E r1, r2 \in Reqs :
        /\ Len(calls[r1]) = 2 /\ Len(calls[r2]) = 2
        /\ Triple(webhook_data[r1]) = Triple(webhook_data[r2])
        /\ webhook_data[r1].orderId # webhook_data[r2].orderId
        /\ webhook_data[r1].verifyResult # webhook_data[r2].verifyResult
        /\ webhook_data[r1].timestamp # webhook_data[r2].timestamp
        /\ signature[r1] = signature[r2]
        /\ signature[r1] = "hmac-sha256(s3cret|12:1:2)"

\* C10: once the verify reply has parsed, whatever its result code and
\* whatever the inbound success flag, the signed forward post has been made
\* and carries the verify body unchanged as verifyResult.
C10_ForwardRegardless ==
    \A r \in Reqs : verify_response[r].kind = "json" =>
        /\ calls[r] = <<ZIBAL_VERIFY_URL, WebhookURL>>
        /\ webhook_data[r].verifyResult = verify_response[r].body
        /\ signature[r] # ""
        /\ pc[r] \in {"forwarding", "done"}

C10_Witness ==
    \E r \in Reqs :
        /\ GotMapping(verify_response[r])
        /\ ~ResultIs100(verify_response[r])
        /\ params[r].success = 0
        /\ calls[r] = <<ZIBAL_VERIFY_URL, WebhookURL>>
        /\ "result" \in DOMAIN webhook_data[r].verifyResult.d
        /\ webhook_data[r].verifyResult.d.result = PyInt(102)

====
